---- MODULE Spec2Model ----
(***************************************************************************)
(* Peregrine: the Index Table and the Indexer (indexer.py), the Search     *)
(* engine (search.py) and the cd command of the shell (peregrine.py),      *)
(* modelled as a state machine.                                            *)
(*                                                                         *)
(* Python values are represented as follows.                               *)
(*   str            a sequence of one-character strings                    *)
(*   path           a sequence of path components (absolute paths start    *)
(*                  at the filesystem root <<>>)                           *)
(*   set / dict     a TLA+ set / function                                  *)
(*   os.stat_result a record [st_dev, st_ino, st_mtime]; None is NoneStat  *)
(*   Optional[x]    <<>> for None, <<x>> otherwise                         *)
(*   an exception   the name of the exception in the outcome of a call     *)
(*   a call stack   the frames of the index_directory calls in progress,    *)
(*                  each with its locals and the entries it has yet to     *)
(*                  visit                                                  *)
(***************************************************************************)
EXTENDS Integers, Sequences, FiniteSets, TLC

VARIABLES
    files,              \* IndexTable.files    : id -> Metadata
    name,               \* IndexTable.name     : filename -> set of ids
    keywords,           \* IndexTable.keywords : keyword -> set of ids
    path,               \* IndexTable.path     : root-relative path -> id
    uid,                \* IndexTable.uid      : os.stat_result -> id
    free_slots,         \* IndexTable.state.free_slots
    lastid,             \* IndexTable.state.lastid
    CURRENT_DIRECTORY,  \* Indexer.CURRENT_DIRECTORY
    NIX,                \* Indexer.NIX
    stack,              \* the index_directory calls in progress, outermost first
    PWD,                \* CommandHandler.PWD
    last                \* the last call made: its arguments and its outcome

table == <<files, name, keywords, path, uid, free_slots, lastid>>
vars == <<files, name, keywords, path, uid, free_slots, lastid,
          CURRENT_DIRECTORY, NIX, stack, PWD, last>>

-----------------------------------------------------------------------------
(* Bounds of the model *)

\* files take MaxMtime distinct modification times, Mtime(1)..Mtime(MaxMtime)
MaxMtime == 2
\* a composite query has 1..MaxQueryLen keywords
MaxQueryLen == 2

-----------------------------------------------------------------------------
(* Generic helpers *)

Range(s) == {s[i] : i \in 1..Len(s)}

Min(a, b) == IF a < b THEN a ELSE b

Max(a, b) == IF a > b THEN a ELSE b

\* the sequences in which the elements of the finite set S can be iterated
Orderings(S) ==
    {s \in [1..Cardinality(S) -> S] : \A i, j \in 1..Cardinality(S) : s[i] = s[j] => i = j}

\* dict assignment d[k] = v
Put(d, k, v) == [x \in DOMAIN d \cup {k} |-> IF x = k THEN v ELSE d[x]]

-----------------------------------------------------------------------------
(* datetime: the proleptic Gregorian calendar and POSIX timestamps.  Local  *)
(* time is taken to be UTC.                                                 *)

IsLeap(y) == (y % 4 = 0 /\ y % 100 # 0) \/ y % 400 = 0

DaysInMonth(y, m) ==
    IF m = 2 THEN (IF IsLeap(y) THEN 29 ELSE 28)
    ELSE IF m \in {4, 6, 9, 11} THEN 30
    ELSE 31

\* datetime.datetime(y, m, d, hh, mm, ss) accepts its arguments
ValidDateTime(y, m, d, hh, mm, ss) ==
    /\ y \in 1..9999
    /\ m \in 1..12
    /\ d \in 1..DaysInMonth(y, m)
    /\ hh \in 0..23
    /\ mm \in 0..59
    /\ ss \in 0..59

\* days from 1970-01-01 to y-m-d
DaysFromCivil(y, m, d) ==
    LET yy == IF m <= 2 THEN y - 1 ELSE y
        era == yy \div 400
        yoe == yy - era * 400
        mp == IF m > 2 THEN m - 3 ELSE m + 9
        doy == (153 * mp + 2) \div 5 + d - 1
        doe == yoe * 365 + yoe \div 4 - yoe \div 100 + doy
    IN  era * 146097 + doe - 719468

\* int(datetime.datetime(y, m, d, hh, mm, ss).timestamp())
Timestamp(y, m, d, hh, mm, ss) ==
    DaysFromCivil(y, m, d) * 86400 + hh * 3600 + mm * 60 + ss

\* the t-th modification time a file can have: 2024-03-31 00:00:59,
\* 00:01:00, ...
Mtime(t) == Timestamp(2024, 3, 31, 0, 0, 58 + t)

-----------------------------------------------------------------------------
(* Words: the tokens the keyword extractor can produce and queries can ask *)

W_report == <<"r", "e", "p", "o", "r", "t">>
W_reports == <<"r", "e", "p", "o", "r", "t", "s">>
W_q3 == <<"q", "3">>
W_reprot == <<"r", "e", "p", "r", "o", "t">>
W_zz == <<"z", "z">>

\* tokens occurring in files
FileWords == {W_report, W_reports, W_q3}

\* keywords a query may name: tracked ones, a misspelling, an unrelated one
QueryWords == {W_report, W_reports, W_q3, W_reprot, W_zz}

-----------------------------------------------------------------------------
(* The filesystem the Indexer runs on *)

HOME_DIRECTORY == <<"home">>

\* regular files that exist: two below the root of the index and one
\* outside it
ExistingFiles == {<<"home", "a">>, <<"home", "d", "a">>, <<"out">>}

\* arguments given to index_file
Filenames == {<<"a">>, <<"d", "a">>, <<"nope">>}

NoneStat == [st_dev |-> 0, st_ino |-> 0, st_mtime |-> 0]

\* what os.stat can return for a file: one file at several modification
\* times, a file with another inode, a file on another device
Stats ==
    {[st_dev |-> 1, st_ino |-> 1, st_mtime |-> Mtime(t)] : t \in 1..MaxMtime}
    \cup {[st_dev |-> 1, st_ino |-> 2, st_mtime |-> Mtime(1)],
          [st_dev |-> 2, st_ino |-> 1, st_mtime |-> Mtime(1)]}

\* the first bytes of a file: text, or bytes with a NUL among them
Heads == {<<104, 105>>, <<104, 0>>}

\* results of the keyword extractor: a list of ranked phrases, or a failure
ExtractorResults ==
    { [ok |-> TRUE, phrases |-> << <<W_report, W_reports>> >>],
      [ok |-> TRUE, phrases |-> << <<W_reports>>, <<W_q3, W_reports>> >>],
      [ok |-> FALSE, phrases |-> <<>>] }

\* os.path.normpath on a sequence of components
RECURSIVE NormPath(_)
NormPath(p) ==
    IF p = <<>> THEN <<>>
    ELSE LET init == NormPath(SubSeq(p, 1, Len(p) - 1))
             c == p[Len(p)]
         IN  IF c = "." THEN init
             ELSE IF c = ".." THEN (IF init = <<>> THEN <<>> ELSE SubSeq(init, 1, Len(init) - 1))
             ELSE Append(init, c)

\* os.path.join(directory, relative name)
JoinPath(d, f) == d \o f

\* length of the longest common prefix of two paths
RECURSIVE CommonPrefixLen(_, _)
CommonPrefixLen(p, q) ==
    IF p = <<>> \/ q = <<>> \/ Head(p) # Head(q) THEN 0
    ELSE 1 + CommonPrefixLen(Tail(p), Tail(q))

\* os.path.relpath(p, start)
RelPath(p, start) ==
    LET np == NormPath(p)
        ns == NormPath(start)
        c == CommonPrefixLen(np, ns)
        rel == [i \in 1..(Len(ns) - c) |-> ".."] \o SubSeq(np, c + 1, Len(np))
    IN  IF rel = <<>> THEN <<".">> ELSE rel

\* open() / os.stat() find a regular file at p
FileExists(p) == NormPath(p) \in ExistingFiles

-----------------------------------------------------------------------------
(* indexer.py *)

\* State.get_nextid: the new lastid, which is also the id returned
get_nextid(lid) == lid + 1

\* Indexer.get_unique_metadata, st being what os.stat returns
get_unique_metadata(nix, st) == IF nix THEN st ELSE NoneStat

\* bytes that Indexer.is_binary_file takes for text
textchars == {7, 8, 9, 10, 12, 13, 27} \cup ((32..255) \ {127})

\* number of bytes Indexer.is_binary_file reads
SniffLength == 1024

\* a sniff that takes every file for text
is_binary_file_Never(bytes) == FALSE

\* Indexer.is_binary_file on the bytes of a file
is_binary_file(bytes) ==
    \E i \in 1..Min(Len(bytes), SniffLength) : bytes[i] \notin textchars

\* set(" ".join(phrases).split()): the tokens of all phrases
RECURSIVE Tokens(_)
Tokens(phrases) ==
    IF phrases = <<>> THEN {} ELSE Range(Head(phrases)) \cup Tokens(Tail(phrases))

\* a failed extraction that leaves a keyword behind
ContentKeywords_Partial(head, ext) ==
    IF is_binary_file(head) THEN {}
    ELSE IF ext.ok THEN Tokens(ext.phrases)
    ELSE {W_zz}

\* index_file lines 154-159: the content keywords of a file
ContentKeywords(head, ext) ==
    IF is_binary_file(head) THEN {}
    ELSE IF ext.ok THEN Tokens(ext.phrases)
    ELSE {}

\* a fast path that is never taken
SameIdentity_Never(cur_stat, stat) == FALSE

\* index_file line 150: the test of the no-op fast path
SameIdentity(cur_stat, stat) ==
    cur_stat.st_ino = stat.st_ino /\ cur_stat.st_mtime = stat.st_mtime

\* an allocator that leaves the id it takes among the free ones
AllocateId_NotPopped(fs, lid) ==
    IF fs # {}
    THEN {[id |-> i, free_slots |-> fs, lastid |-> lid] : i \in fs}
    ELSE {[id |-> get_nextid(lid), free_slots |-> fs, lastid |-> get_nextid(lid)]}

\* an allocator that issues the last id again
AllocateId_Reissued(fs, lid) ==
    {[id |-> Max(lid, 0), free_slots |-> fs, lastid |-> Max(lid, 0)]}

\* index_file lines 164-169: the ids a new file can get, with the allocator
\* state each choice leaves
AllocateId(fs, lid) ==
    IF fs # {}
    THEN {[id |-> i, free_slots |-> fs \ {i}, lastid |-> lid] : i \in fs}
    ELSE {[id |-> get_nextid(lid), free_slots |-> fs, lastid |-> get_nextid(lid)]}

\* a tracked file for which the allocator is called all the same
ReuseId_Allocates(pathindex, filepath, fs, lid) ==
    {[id |-> pathindex[filepath], free_slots |-> fs, lastid |-> get_nextid(lid)]}

\* index_file line 145: a tracked file keeps its id and the allocator is
\* not called
ReuseId(pathindex, filepath, fs, lid) ==
    {[id |-> pathindex[filepath], free_slots |-> fs, lastid |-> lid]}

\* a removal loop that runs over every old keyword, kept or not
RemoveStale_All(kwindex, id, old_keywords, new_keywords) ==
    [k \in DOMAIN kwindex \cup old_keywords |->
        IF k \in old_keywords
        THEN (IF k \in DOMAIN kwindex THEN kwindex[k] ELSE {}) \ {id}
        ELSE kwindex[k]]

\* the removal loop left out
RemoveStale_Skipped(kwindex, id, old_keywords, new_keywords) == kwindex

\* index_file lines 177-180: ids dropped from the keywords a file lost
RemoveStale(kwindex, id, old_keywords, new_keywords) ==
    LET gone == old_keywords \ new_keywords
    IN  [k \in DOMAIN kwindex \cup gone |->
            IF k \in gone
            THEN (IF k \in DOMAIN kwindex THEN kwindex[k] ELSE {}) \ {id}
            ELSE kwindex[k]]

\* index_file lines 181-184: ids added to the keywords a file gained
AddNew(kwindex, id, old_keywords, new_keywords) ==
    LET gained == new_keywords \ old_keywords
    IN  [k \in DOMAIN kwindex \cup gained |->
            IF k \in gained
            THEN (IF k \in DOMAIN kwindex THEN kwindex[k] ELSE {}) \cup {id}
            ELSE kwindex[k]]

\* index_file lines 186-189
AddName(nameindex, filename, id) ==
    IF filename \in DOMAIN nameindex
    THEN [nameindex EXCEPT ![filename] = @ \cup {id}]
    ELSE Put(nameindex, filename, {id})

\* the record of a call: every call fills in the fields it has
NoCall ==
    [ op |-> "none", outcome |-> "none",
      filename |-> <<>>, filepath |-> <<>>, tracked |-> FALSE, cur_stat |-> NoneStat,
      id |-> -1, old_keywords |-> {},
      keyword |-> <<>>, fuzzy |-> FALSE, result |-> {}, ranked |-> <<>>,
      high |-> 0, low |-> 0, operation |-> <<>>, search_files |-> <<>>,
      query |-> <<>>, date |-> <<>>, time |-> <<>>, today |-> <<>>,
      limits |-> [outcome |-> "none", low |-> <<>>, high |-> <<>>] ]

\* Indexer.index_file(filename), the file having stat st, first bytes head and
\* the extractor answering ext at the time of the call
index_file(filename, st, head, ext) ==
    LET full_filepath == JoinPath(CURRENT_DIRECTORY, filename)
        filepath == RelPath(full_filepath, HOME_DIRECTORY)
        tracked_file == filepath \in DOMAIN path
        cur_stat == get_unique_metadata(NIX, st)
        call == [NoCall EXCEPT !.op = "index_file", !.filename = filename,
                               !.filepath = filepath, !.tracked = tracked_file,
                               !.cur_stat = cur_stat]
    IN
    IF tracked_file /\ ~NIX
    THEN \* line 150: cur_stat is None
         /\ last' = [call EXCEPT !.outcome = "AttributeError", !.id = path[filepath]]
         /\ UNCHANGED <<table, CURRENT_DIRECTORY, NIX, PWD>>
    ELSE IF tracked_file /\ SameIdentity(cur_stat, files[path[filepath]].u_meta)
    THEN \* line 151
         /\ last' = [call EXCEPT !.outcome = "unchanged", !.id = path[filepath],
                                 !.old_keywords = files[path[filepath]].keywords]
         /\ UNCHANGED <<table, CURRENT_DIRECTORY, NIX, PWD>>
    ELSE IF ~FileExists(full_filepath)
    THEN \* line 121: open() fails
         /\ last' = [call EXCEPT !.outcome = "FileNotFoundError"]
         /\ UNCHANGED <<table, CURRENT_DIRECTORY, NIX, PWD>>
    ELSE \E a \in (IF tracked_file
                   THEN ReuseId(path, filepath, free_slots, lastid)
                   ELSE AllocateId(free_slots, lastid)) :
         LET unique_id == a.id
             old_keywords == IF tracked_file THEN files[unique_id].keywords ELSE {}
             \* line 173: a record is created for an untracked file only
             record == IF tracked_file THEN files[unique_id]
                       ELSE [keywords |-> {}, user_keywords |-> {},
                             path |-> filepath, u_meta |-> cur_stat]
             \* lines 175-176
             new_keywords == ContentKeywords(head, ext) \cup record.user_keywords
         IN  /\ files' = Put(files, unique_id, [record EXCEPT !.keywords = new_keywords])
             /\ keywords' = AddNew(RemoveStale(keywords, unique_id, old_keywords, new_keywords),
                                   unique_id, old_keywords, new_keywords)
             /\ name' = AddName(name, filename, unique_id)
             /\ path' = Put(path, filepath, unique_id)
             \* line 194: keyed by the u_meta of the record
             /\ uid' = Put(uid, record.u_meta, unique_id)
             /\ free_slots' = a.free_slots
             /\ lastid' = a.lastid
             /\ last' = [call EXCEPT !.outcome = "ok", !.id = unique_id,
                                     !.old_keywords = old_keywords]
             /\ UNCHANGED <<CURRENT_DIRECTORY, NIX, PWD>>

\* what a call reads from the file: the first bytes and what the extractor
\* makes of the text; the extractor is not run on a binary file
FileContents ==
    {<<h, e>> \in Heads \X ExtractorResults :
        is_binary_file(h) => e = [ok |-> FALSE, phrases |-> <<>>]}

\* index_file called while no index_directory call is in progress
IndexFile ==
    /\ stack = <<>>
    /\ \E filename \in Filenames, st \in Stats, content \in FileContents :
          index_file(filename, st, content[1], content[2])
    /\ UNCHANGED stack

-----------------------------------------------------------------------------
(* str methods *)

UpperCase == <<"A", "B", "C", "D", "E", "F", "G", "H", "I", "J", "K", "L", "M",
               "N", "O", "P", "Q", "R", "S", "T", "U", "V", "W", "X", "Y", "Z">>
LowerCase == <<"a", "b", "c", "d", "e", "f", "g", "h", "i", "j", "k", "l", "m",
               "n", "o", "p", "q", "r", "s", "t", "u", "v", "w", "x", "y", "z">>
Whitespace == {" ", "\t", "\n"}

\* str.lower()
Lower(s) ==
    [i \in 1..Len(s) |->
        IF \E k \in 1..Len(UpperCase) : UpperCase[k] = s[i]
        THEN LowerCase[CHOOSE k \in 1..Len(UpperCase) : UpperCase[k] = s[i]]
        ELSE s[i]]

\* str.strip()
Strip(s) ==
    LET keep == {i \in 1..Len(s) : s[i] \notin Whitespace}
    IN  IF keep = {} THEN <<>>
        ELSE SubSeq(s, CHOOSE i \in keep : \A j \in keep : i <= j,
                       CHOOSE i \in keep : \A j \in keep : i >= j)

-----------------------------------------------------------------------------
(* Levenshtein.jaro *)

\* the pairs <<i, j>> of matched positions of s1 and s2, found greedily for
\* the positions i.. of s1, the positions in used being taken already
RECURSIVE JaroPairs(_, _, _, _)
JaroPairs(s1, s2, i, used) ==
    IF i > Len(s1) THEN {}
    ELSE LET w == Max(Max(Len(s1), Len(s2)) \div 2 - 1, 0)
             cand == {j \in Max(1, i - w)..Min(Len(s2), i + w) :
                        j \notin used /\ s2[j] = s1[i]}
         IN  IF cand = {} THEN JaroPairs(s1, s2, i + 1, used)
             ELSE LET j == CHOOSE x \in cand : \A y \in cand : x <= y
                  IN  {<<i, j>>} \cup JaroPairs(s1, s2, i + 1, used \cup {j})

\* the k-th smallest element of a set of numbers
RECURSIVE Kth(_, _)
Kth(S, k) ==
    LET m == CHOOSE x \in S : \A y \in S : x <= y
    IN  IF k = 1 THEN m ELSE Kth(S \ {m}, k - 1)

\* threshold, in hundredths, of Search.FUZZY_THRESHOLD = 0.80
FuzzyThresholdPercent == 80

\* jaro(s1, s2) >= FUZZY_THRESHOLD, in exact arithmetic
JaroAtLeastThreshold(s1, s2) ==
    LET pairs == JaroPairs(s1, s2, 1, {})
        m == Cardinality(pairs)
        I == {pr[1] : pr \in pairs}
        J == {pr[2] : pr \in pairs}
        t == Cardinality({k \in 1..m : s1[Kth(I, k)] # s2[Kth(J, k)]}) \div 2
        l1 == Len(s1)
        l2 == Len(s2)
    IN  IF l1 = 0 /\ l2 = 0 THEN TRUE
        ELSE IF m = 0 THEN FALSE
        ELSE 100 * (m * m * l2 + m * m * l1 + (m - t) * l1 * l2)
                >= FuzzyThresholdPercent * 3 * l1 * l2 * m

-----------------------------------------------------------------------------
(* search.py: keyword and time search.  A call yields [outcome, result],    *)
(* the outcome being "ok" or the exception raised.                          *)

\* jaro(i, keyword) >= self.FUZZY_THRESHOLD for the words of the model
Similar ==
    [i \in FileWords \cup QueryWords, keyword \in FileWords \cup QueryWords |->
        JaroAtLeastThreshold(i, keyword)]

\* search_by_keyword lines 25-28: the fuzzy branch
FuzzyKeywordSet(kwindex, keyword) ==
    UNION {kwindex[i] : i \in {k \in DOMAIN kwindex : Similar[k, keyword]}}

\* Search.search_by_keyword(keyword, fuzzy)
search_by_keyword(keyword, fuzzy) ==
    IF ~fuzzy
    THEN IF keyword \in DOMAIN keywords
         THEN [outcome |-> "ok", result |-> keywords[keyword]]
         ELSE [outcome |-> "KeyError", result |-> {}]    \* line 23: a plain dict
    ELSE [outcome |-> "ok", result |-> FuzzyKeywordSet(keywords, keyword)]

S_before == <<"b", "e", "f", "o", "r", "e">>
S_after == <<"a", "f", "t", "e", "r">>
S_on == <<"o", "n">>

\* search_by_time lines 70-78: the comparison made for a valid operation
TimeMatches(op, t, high, low) ==
    IF op = S_before THEN t <= high
    ELSE IF op = S_after THEN t >= low
    ELSE high >= t /\ t >= low

\* search_by_time lines 69-80 for one candidate id i: "pass" when the loop
\* goes on to the next candidate, otherwise the exception raised
TimeStep(i, op, high, low) ==
    IF i \notin DOMAIN files THEN "KeyError"                   \* line 69
    ELSE LET u == files[i].u_meta
         IN  IF op \notin {S_before, S_after, S_on} THEN "ValueError"   \* line 80
             ELSE IF u = NoneStat THEN "AttributeError"        \* None.st_mtime
             ELSE IF ~TimeMatches(op, u.st_mtime, high, low) THEN "pass"
             ELSE IF u \notin DOMAIN uid THEN "KeyError"
             ELSE "TypeError"       \* lines 72, 75, 78: set.update(int)

\* Search.search_by_time(high, low, operation, search_files): the outcomes the
\* call can have, under every order of iteration.  operation and
\* search_files are <<>> for None.
search_by_time(high, low, operation, search_files) ==
    IF operation = <<>>
    THEN {[outcome |-> "AttributeError", result |-> {}]}       \* line 63: None.strip()
    ELSE LET op == Lower(Strip(operation[1]))
             \* lines 65-69: the keys of uid are looked up in files, whose
             \* keys are ids
             raised == IF search_files = <<>>
                       THEN {"KeyError" : i \in DOMAIN uid}
                       ELSE {TimeStep(i, op, high, low) : i \in search_files[1]} \ {"pass"}
         IN  IF raised = {}
             THEN {[outcome |-> "ok", result |-> {}]}
             ELSE {[outcome |-> e, result |-> {}] : e \in raised}

-----------------------------------------------------------------------------
(* Specification of the Indexer *)

\* IndexTable() of line 89 and Indexer.__init__
Init ==
    /\ files = <<>>
    /\ name = <<>>
    /\ keywords = <<>>
    /\ path = <<>>
    /\ uid = <<>>
    /\ free_slots = {}
    /\ lastid = -1
    /\ CURRENT_DIRECTORY = HOME_DIRECTORY
    /\ NIX \in BOOLEAN
    /\ stack = <<>>
    /\ PWD = HOME_DIRECTORY
    /\ last = NoCall

Next == IndexFile

Spec == Init /\ [][Next]_vars

-----------------------------------------------------------------------------
(* search.py: resolution of the time window *)

Digits == <<"0", "1", "2", "3", "4", "5", "6", "7", "8", "9">>

\* s[a:b] of Python, a and b counted from 0
Slice(s, a, b) == SubSeq(s, a + 1, Min(b, Len(s)))

\* int(s) returns: s is a non-empty string of decimal digits
IsInt(s) ==
    s # <<>> /\ \A i \in 1..Len(s) : \E k \in 1..10 : Digits[k] = s[i]

\* int(s) for such a string
RECURSIVE ParseInt(_)
ParseInt(s) ==
    IF s = <<>> THEN 0
    ELSE 10 * ParseInt(SubSeq(s, 1, Len(s) - 1))
         + (CHOOSE k \in 0..9 : Digits[k + 1] = s[Len(s)])

\* codes for which ErrorHandler.errors has a message
errors ==
    {"NO_PEREGRINE_DIR", "NO_INDEX", "NO_PEREGRINEFILE", "INVALID_PATH",
     "OUT_OF_SCOPE_PATH"}

\* ErrorHandler.log(code) for a code other than SUCCESS: the outcomes of the
\* call.  A code without a message raises KeyError at self.errors[code], or
\* NameError where the name of the code is not defined at all.
log(code) ==
    IF code \in errors THEN {"ok"} ELSE {"KeyError", "NameError"}

\* Search._get_last_day_of_month(year, month): <<day>>, or <<>> when
\* datetime.date raises ValueError
get_last_day_of_month(year, month) ==
    LET nm == (month + 1) % 12
        next_month == IF nm = 0 THEN 12 ELSE nm
        next_year == IF month # 12 THEN year ELSE year + 1
        \* the day before the first of next_month is the last day of the
        \* month preceding it
        prev_month == IF next_month = 1 THEN 12 ELSE next_month - 1
        prev_year == IF next_month = 1 THEN next_year - 1 ELSE next_year
    IN  IF next_year \in 1..9999 /\ prev_year \in 1..9999
        THEN <<DaysInMonth(prev_year, prev_month)>>
        ELSE <<>>

\* a pair of datetime objects, high and low, each <<y, m, d, hh, mm, ss>>,
\* turned into timestamps: <<>> when a constructor raises ValueError
Limits(high_dt, low_dt) ==
    IF /\ ValidDateTime(high_dt[1], high_dt[2], high_dt[3], high_dt[4], high_dt[5], high_dt[6])
       /\ ValidDateTime(low_dt[1], low_dt[2], low_dt[3], low_dt[4], low_dt[5], low_dt[6])
    THEN << [high |-> Timestamp(high_dt[1], high_dt[2], high_dt[3],
                                high_dt[4], high_dt[5], high_dt[6]),
             low |-> Timestamp(low_dt[1], low_dt[2], low_dt[3],
                               low_dt[4], low_dt[5], low_dt[6])] >>
    ELSE <<>>

\* _get_epoch_limits lines 176-197, the body of the try for the date: the
\* year, month and day it leaves (month and day <<>> for None) and the
\* limits; ok is FALSE when an exception is raised in it
DatePart(date) ==
    LET n == Len(date)
        hour == 0
        minutes == 0
        failed == [ok |-> FALSE, year |-> 0, month |-> <<>>, day |-> <<>>, limits |-> <<>>]
    IN  IF ~IsInt(Slice(date, 0, 4)) THEN failed
        ELSE IF n >= 5 /\ ~IsInt(Slice(date, 4, 6)) THEN failed
        ELSE IF n = 8 /\ ~IsInt(Slice(date, 6, 8)) THEN failed
        ELSE
        LET year == ParseInt(Slice(date, 0, 4))
            month == IF n >= 5 THEN <<ParseInt(Slice(date, 4, 6))>> ELSE <<>>
            day == IF n = 8 THEN <<ParseInt(Slice(date, 6, 8))>> ELSE <<>>
            last_day == IF month = <<>> THEN <<>>
                        ELSE get_last_day_of_month(year, month[1])
            limits ==
                IF month # <<>> /\ day # <<>>
                THEN Limits(<<year, month[1], day[1], 23, 59, 59>>,
                            <<year, month[1], day[1], 0, 0, 0>>)
                ELSE IF month = <<>>
                THEN Limits(<<year, 12, 31, hour, 59, 59>>,
                            <<year, 1, 1, hour, 0, 0>>)
                ELSE IF last_day = <<>> THEN <<>>
                ELSE Limits(<<year, month[1], last_day[1], hour, minutes, 59>>,
                            <<year, month[1], 1, hour, minutes, 0>>)
        IN  IF limits = <<>> THEN failed
            ELSE [ok |-> TRUE, year |-> year, month |-> month, day |-> day,
                  limits |-> limits]

\* _get_epoch_limits lines 202-225, the body of the try for the time, with
\* the year, month and day left by the lines before it: <<limits>>, or <<>>
\* when an exception is raised in it
TimePart(time, year, month, day) ==
    LET n == Len(time)
    IN  IF ~IsInt(Slice(time, 0, 2)) THEN <<>>
        ELSE IF n >= 4 /\ ~IsInt(Slice(time, 2, 4)) THEN <<>>
        ELSE IF n = 6 /\ ~IsInt(Slice(time, 4, 6)) THEN <<>>
        ELSE IF month = <<>> \/ day = <<>> THEN <<>>   \* datetime(year, None, ...)
        ELSE
        LET hour == ParseInt(Slice(time, 0, 2))
            minutes == IF n >= 4 THEN <<ParseInt(Slice(time, 2, 4))>> ELSE <<>>
            second == IF n = 6 THEN <<ParseInt(Slice(time, 4, 6))>> ELSE <<>>
        IN  IF minutes # <<>> /\ second # <<>>
            THEN Limits(<<year, month[1], day[1], hour, minutes[1], second[1]>>,
                        <<year, month[1], day[1], hour, minutes[1], second[1]>>)
            ELSE IF minutes = <<>>
            THEN Limits(<<year, month[1], day[1], hour, 59, 59>>,
                        <<year, month[1], day[1], hour, 0, 0>>)
            ELSE Limits(<<year, month[1], day[1], hour, minutes[1], 59>>,
                        <<year, month[1], day[1], hour, minutes[1], 0>>)

\* Search._get_epoch_limits(date_in_yyyymmdd, time_in_hhmmss), today being
\* datetime.date.today(): the outcomes [outcome, low, high] of the call.
\* date and time are <<>> for None; low and high are <<>> for None.
get_epoch_limits(date, time, today) ==
    LET none == [outcome |-> "ok", low |-> <<>>, high |-> <<>>]
        raised(code) == {[none EXCEPT !.outcome = e] : e \in log(code) \ {"ok"}}
        dp == IF date = <<>>
              THEN [ok |-> TRUE, year |-> today[1], month |-> <<today[2]>>,
                    day |-> <<today[3]>>, limits |-> <<>>]
              ELSE DatePart(date[1])
        after_date == IF dp.limits = <<>> THEN none
                      ELSE [none EXCEPT !.low = <<dp.limits[1].low>>,
                                        !.high = <<dp.limits[1].high>>]
        tp == TimePart(time[1], dp.year, dp.month, dp.day)
    IN  IF ~dp.ok
        THEN \* line 199: the handler itself raises when log does
             IF "ok" \in log("INVALID_DATE") THEN {none} ELSE raised("INVALID_DATE")
        ELSE IF time = <<>> THEN {after_date}
        ELSE IF tp = <<>>
        THEN \* line 227
             IF "ok" \in log("INVALID_TIME") THEN {after_date} ELSE raised("INVALID_TIME")
        ELSE {[none EXCEPT !.low = <<tp[1].low>>, !.high = <<tp[1].high>>]}

-----------------------------------------------------------------------------
(* Specification of keyword and time search over a populated Index Table *)

\* files of one device and inode, at each modification time
MtimeStats == {[st_dev |-> 1, st_ino |-> 1, st_mtime |-> Mtime(t)] : t \in 1..MaxMtime}

\* index_file calls that populate the table for the searches: text files on
\* which the extractor succeeds
IndexTextFile ==
    /\ stack = <<>>
    /\ \E filename \in {<<"a">>, <<"d", "a">>}, st \in MtimeStats,
          ext \in {e \in ExtractorResults : e.ok} :
            index_file(filename, st, <<104, 105>>, ext)
    /\ UNCHANGED stack

SearchByKeyword ==
    \E keyword \in QueryWords, fuzzy \in BOOLEAN :
        LET r == search_by_keyword(keyword, fuzzy)
        IN  /\ last' = [NoCall EXCEPT !.op = "search_by_keyword", !.keyword = keyword,
                                      !.fuzzy = fuzzy, !.outcome = r.outcome,
                                      !.result = r.result]
            /\ UNCHANGED <<table, CURRENT_DIRECTORY, NIX, stack, PWD>>

\* operation arguments: the three operations, one padded and capitalised,
\* and one that is none of them
Operations ==
    {S_before, S_after, S_on, <<" ", "O", "n", " ">>, <<"a", "t">>}

\* search_files arguments: None, or a set of ids
CandidateSets == {<<>>, <<{}>>, <<{0}>>, <<{0, 1}>>}

TimeLimits == {Mtime(t) : t \in 1..MaxMtime}

SearchByTime ==
    \E high \in TimeLimits, low \in TimeLimits, operation \in Operations,
       search_files \in CandidateSets :
        \E r \in search_by_time(high, low, <<operation>>, search_files) :
            /\ last' = [NoCall EXCEPT !.op = "search_by_time", !.high = high, !.low = low,
                                      !.operation = <<operation>>,
                                      !.search_files = search_files,
                                      !.outcome = r.outcome, !.result = r.result]
            /\ UNCHANGED <<table, CURRENT_DIRECTORY, NIX, stack, PWD>>

NextTime == IndexTextFile \/ SearchByTime

SpecTime == Init /\ [][NextTime]_vars

NextKeyword == IndexTextFile \/ SearchByKeyword

SpecKeyword == Init /\ [][NextKeyword]_vars

-----------------------------------------------------------------------------
(* search.py: the composite query *)

\* list.sort(key=len), a stable sort: s with x inserted after the elements
\* that are not longer
RECURSIVE InsertByLen(_, _)
InsertByLen(s, x) ==
    IF s = <<>> THEN <<x>>
    ELSE IF Len(s[Len(s)]) <= Len(x) THEN Append(s, x)
    ELSE Append(InsertByLen(SubSeq(s, 1, Len(s) - 1), x), s[Len(s)])

RECURSIVE SortByLen(_)
SortByLen(s) ==
    IF s = <<>> THEN <<>>
    ELSE InsertByLen(SortByLen(SubSeq(s, 1, Len(s) - 1)), s[Len(s)])

\* set.intersection(*sets) and set.union(*sets) of a non-empty list of sets
IntersectAll(sets) == {x \in sets[1] : \A i \in 1..Len(sets) : x \in sets[i]}

UnionAll(sets) == UNION {sets[i] : i \in 1..Len(sets)}

\* the tier kept whole, ids placed already included
Unplaced_Kept(candidates, files_set) == candidates

\* lines 131, 141, 151: difference_update(files_set)
Unplaced(candidates, files_set) == candidates \ files_set

\* lines 116-119, 132-135, 142-145, 152-155: the tier as it is, or what
\* search_by_time makes of it
InWindow(is_time_constraint, limits, operation, tier) ==
    IF is_time_constraint
    THEN search_by_time(limits.high[1], limits.low[1], operation, <<tier>>)
    ELSE {[outcome |-> "ok", result |-> tier]}

\* The set objects the composite query works on.  A reference is <<k>> for
\* the set stored in the keyword index under k, and <<>> for a set created
\* during the call.

\* search_by_keyword lines 23 and 25: the exact search returns the stored set
\* itself, the fuzzy search a set of its own
ResultRef(keyword, fuzzy) == IF fuzzy THEN <<>> ELSE <<keyword>>

\* a set operation that hands back its only argument
NewSetRef_First(refs) == IF Len(refs) = 1 THEN refs[1] ELSE <<>>

\* lines 114, 130, 140, 150: set.intersection(*sets) and set.union(*sets)
\* return a new set, whatever the number of arguments
NewSetRef(refs) == <<>>

RECURSIVE StoreAll(_, _)
\* the keyword index after the in-place updates [ref, value] of a call, in
\* the order they were made
StoreAll(kwindex, updates) ==
    IF updates = <<>> THEN kwindex
    ELSE LET u == Head(updates)
         IN  StoreAll(IF u.ref = <<>> THEN kwindex
                      ELSE [kwindex EXCEPT ![u.ref[1]] = u.value],
                      Tail(updates))

\* the lists that list.extend(a set) can append
Extended(lists, tier) == {l \o o : l \in lists, o \in Orderings(tier)}

\* search_by_multiple_keywords lines 108-159, limits being the window that
\* _get_epoch_limits returned: the outcomes [outcome, ranked] of the call
RankedSearch(query, limits, operation) ==
    LET is_time_constraint == limits.low # <<>>
        sorted == SortByLen(query)
        failed(e, ups) == {[outcome |-> e, ranked |-> <<>>, updates |-> ups]}
    IN
    IF \E i \in 1..Len(sorted) : search_by_keyword(sorted[i], FALSE).outcome # "ok"
    THEN failed("KeyError", <<>>)                                \* line 111
    ELSE IF sorted = <<>> THEN failed("TypeError", <<>>)         \* line 114
    ELSE
    LET not_fuzzy_sets == [i \in 1..Len(sorted) |-> search_by_keyword(sorted[i], FALSE).result]
        fuzzy_sets == [i \in 1..Len(sorted) |-> search_by_keyword(sorted[i], TRUE).result]
        not_fuzzy_refs == [i \in 1..Len(sorted) |-> ResultRef(sorted[i], FALSE)]
        fuzzy_refs == [i \in 1..Len(sorted) |-> ResultRef(sorted[i], TRUE)]
        \* files_set: the set of line 114, or the one search_by_time made
        \* at line 117
        files_set_ref == IF is_time_constraint THEN <<>> ELSE NewSetRef(not_fuzzy_refs)
        \* the sets updated in place at lines 131 and 136, 141 and 146,
        \* 151 and 156
        ups2(r1) == << [ref |-> NewSetRef(fuzzy_refs),
                        value |-> Unplaced(IntersectAll(fuzzy_sets), r1.result)] >>
        ups3(r1, r2) ==
            ups2(r1) \o << [ref |-> files_set_ref, value |-> r1.result \cup r2.result],
                           [ref |-> NewSetRef(not_fuzzy_refs),
                            value |-> Unplaced(UnionAll(not_fuzzy_sets),
                                               r1.result \cup r2.result)] >>
        ups4(r1, r2, r3) ==
            ups3(r1, r2) \o << [ref |-> files_set_ref,
                                value |-> r1.result \cup r2.result \cup r3.result],
                               [ref |-> NewSetRef(fuzzy_refs),
                                value |-> Unplaced(UnionAll(fuzzy_sets),
                                            r1.result \cup r2.result \cup r3.result)] >>
        ups(r1, r2, r3, r4) ==
            ups4(r1, r2, r3) \o << [ref |-> files_set_ref,
                                    value |-> r1.result \cup r2.result
                                                \cup r3.result \cup r4.result] >>
    IN  UNION {
          IF r1.outcome # "ok" THEN failed(r1.outcome, <<>>)
          ELSE UNION {
            IF r2.outcome # "ok" THEN failed(r2.outcome, ups2(r1))
            ELSE UNION {
              IF r3.outcome # "ok" THEN failed(r3.outcome, ups3(r1, r2))
              ELSE UNION {
                IF r4.outcome # "ok" THEN failed(r4.outcome, ups4(r1, r2, r3))
                ELSE {[outcome |-> "ok", ranked |-> l, updates |-> ups(r1, r2, r3, r4)] :
                        l \in Extended(Extended(Extended(Extended({<<>>},
                                r1.result), r2.result), r3.result), r4.result)}
                : r4 \in InWindow(is_time_constraint, limits, operation,
                            Unplaced(UnionAll(fuzzy_sets),
                                     r1.result \cup r2.result \cup r3.result)) }
              : r3 \in InWindow(is_time_constraint, limits, operation,
                          Unplaced(UnionAll(not_fuzzy_sets), r1.result \cup r2.result)) }
            : r2 \in InWindow(is_time_constraint, limits, operation,
                        Unplaced(IntersectAll(fuzzy_sets), r1.result)) }
          : r1 \in InWindow(is_time_constraint, limits, operation,
                      IntersectAll(not_fuzzy_sets)) }

\* Search.search_by_multiple_keywords(keywords, date_in_yyyymmdd,
\* time_in_hhmmss, operation): the outcomes [outcome, ranked, limits]
search_by_multiple_keywords(query, date, time, operation, today) ==
    UNION {
      IF epoch_limits.outcome # "ok"
      THEN {[outcome |-> epoch_limits.outcome, ranked |-> <<>>, limits |-> epoch_limits,
             updates |-> <<>>]}
      ELSE {[outcome |-> r.outcome, ranked |-> r.ranked, limits |-> epoch_limits,
             updates |-> r.updates] :
                r \in RankedSearch(query, epoch_limits, operation)}
      : epoch_limits \in get_epoch_limits(date, time, today) }

-----------------------------------------------------------------------------
(* Specification of the composite query over a populated Index Table *)

\* keywords of composite queries: each is a key of keyword_index in some
\* tables and not in others
MultiWords == {W_report, W_q3}

QueryLists == UNION {[1..n -> MultiWords] : n \in 1..MaxQueryLen}

\* datetime.date.today()
Today == <<2024, 3, 31>>

\* date, time and operation of composite queries: none; March 2024; a day
\* after every file; a month that does not exist; an hour that does not
\* exist
QueryWindows ==
    { [date |-> <<>>, time |-> <<>>, operation |-> <<>>],
      [date |-> << <<"2", "0", "2", "4", "0", "3">> >>, time |-> <<>>,
       operation |-> <<S_on>>],
      [date |-> << <<"2", "0", "2", "4", "0", "4", "0", "1">> >>, time |-> <<>>,
       operation |-> <<S_on>>],
      [date |-> << <<"2", "0", "2", "4", "1", "3">> >>, time |-> <<>>,
       operation |-> <<S_on>>],
      [date |-> <<>>, time |-> << <<"2", "5">> >>, operation |-> <<S_on>>] }

SearchByMultipleKeywords ==
    \E query \in QueryLists, w \in QueryWindows :
        \E r \in search_by_multiple_keywords(query, w.date, w.time, w.operation, Today) :
            /\ last' = [NoCall EXCEPT !.op = "search_by_multiple_keywords",
                                      !.query = query, !.date = w.date, !.time = w.time,
                                      !.operation = w.operation, !.today = Today,
                                      !.limits = r.limits, !.outcome = r.outcome,
                                      !.ranked = r.ranked]
            \* the index sets the call updated in place
            /\ keywords' = StoreAll(keywords, r.updates)
            /\ UNCHANGED <<files, name, path, uid, free_slots, lastid,
                           CURRENT_DIRECTORY, NIX, stack, PWD>>

NextMulti == IndexTextFile \/ SearchByMultipleKeywords

SpecMulti == Init /\ [][NextMulti]_vars

-----------------------------------------------------------------------------
(* Specification of the window resolution alone *)

YearParts == {<<"2", "0", "2", "3">>, <<"2", "0", "2", "4">>, <<"2", "0", "x", "4">>}

MonthParts == {<<>>, <<"0", "2">>, <<"0", "3">>, <<"1", "2">>, <<"1", "3">>,
               <<"0", "x">>, <<"1">>}

DayParts == {<<>>, <<"2", "9">>, <<"3", "1">>, <<"0", "0">>, <<"3">>}

\* date_in_yyyymmdd arguments: None, or a year followed by at most a month
\* and a day, of 4 to 8 characters
DateInputs ==
    {<<>>} \cup {<<y \o m \o d>> : y \in YearParts, m \in MonthParts,
                                  d \in {x \in DayParts : x = <<>>}}
           \cup {<<y \o m \o d>> : y \in YearParts,
                                  m \in {x \in MonthParts : Len(x) = 2}, d \in DayParts}

\* time_in_hhmmss arguments
TimeInputs ==
    {<<>>, << <<"1", "2">> >>, << <<"1", "2", "3", "0">> >>,
     << <<"1", "2", "3", "0", "0", "5">> >>, << <<"2", "5">> >>,
     << <<"1", "2", "6", "0">> >>, << <<"1", "x">> >>, << <<"1", "2", "3">> >>}

GetEpochLimits ==
    \E date \in DateInputs, time \in TimeInputs :
        \E r \in get_epoch_limits(date, time, Today) :
            /\ last' = [NoCall EXCEPT !.op = "_get_epoch_limits", !.date = date,
                                      !.time = time, !.today = Today, !.limits = r,
                                      !.outcome = r.outcome]
            /\ UNCHANGED <<table, CURRENT_DIRECTORY, NIX, stack, PWD>>

SpecEpoch == Init /\ [][GetEpochLimits]_vars

-----------------------------------------------------------------------------
(* Claims about keyword and time search *)

\* C4: exact keyword search returns exactly keyword_index[keyword] when the
\* keyword is a key of keyword_index, and the empty set, without an error,
\* when it is not.
C4_ExactKeywordSearch ==
    (last.op = "search_by_keyword" /\ ~last.fuzzy) =>
        /\ last.outcome = "ok"
        /\ last.result = IF last.keyword \in DOMAIN keywords
                         THEN keywords[last.keyword] ELSE {}

\* the ids of the files under consideration by search_by_time whose stored
\* modification time satisfies the operation
TimeSearchExpected(high, low, op, search_files) ==
    LET considered == IF search_files = <<>> THEN {uid[s] : s \in DOMAIN uid}
                      ELSE search_files[1]
    IN  {i \in considered : TimeMatches(op, files[i].u_meta.st_mtime, high, low)}

\* C5: for operation before, after or on, search_by_time returns, without
\* raising, exactly the ids of the files under consideration whose stored
\* modification time satisfies the operation.
C5_TimeSearchResult ==
    ( /\ last.op = "search_by_time"
      /\ Lower(Strip(last.operation[1])) \in {S_before, S_after, S_on}
      /\ NIX
      /\ last.search_files # <<>> => last.search_files[1] \subseteq DOMAIN files )
    => /\ last.outcome = "ok"
       /\ last.result = TimeSearchExpected(last.high, last.low,
                            Lower(Strip(last.operation[1])), last.search_files)

\* C6: search_by_time signals an invalid-operation error for every operation
\* that, trimmed and lower-cased, is not before, after or on, whatever the
\* table and the candidate set, empty ones included.
C6_InvalidOperationSignalled ==
    ( /\ last.op = "search_by_time"
      /\ Lower(Strip(last.operation[1])) \notin {S_before, S_after, S_on}
      /\ last.search_files # <<>> => last.search_files[1] \subseteq DOMAIN files )
    => last.outcome = "ValueError"

-----------------------------------------------------------------------------
(* Claims about the composite query and the window resolution *)

\* the exact-match set of a keyword: empty for a keyword that is no key
ExactMatchSet(k) == IF k \in DOMAIN keywords THEN keywords[k] ELSE {}

\* the fuzzy-match set of a keyword
FuzzyMatchSet(k) ==
    UNION {keywords[i] : i \in {x \in DOMAIN keywords : JaroAtLeastThreshold(x, k)}}

Tier1(q) == {i \in DOMAIN files : \A k \in Range(q) : i \in ExactMatchSet(k)}

Tier2(q) == {i \in DOMAIN files : \A k \in Range(q) : i \in FuzzyMatchSet(k)} \ Tier1(q)

Tier3(q) ==
    {i \in DOMAIN files : \E k \in Range(q) : i \in ExactMatchSet(k)}
        \ (Tier1(q) \cup Tier2(q))

Tier4(q) ==
    {i \in DOMAIN files : \E k \in Range(q) : i \in FuzzyMatchSet(k)}
        \ (Tier1(q) \cup Tier2(q) \cup Tier3(q))

\* l lists the ids of t1, then those of t2, of t3 and of t4
IsConcatenation(l, t1, t2, t3, t4) ==
    LET n1 == Cardinality(t1)
        n2 == n1 + Cardinality(t2)
        n3 == n2 + Cardinality(t3)
        n4 == n3 + Cardinality(t4)
    IN  /\ Len(l) = n4
        /\ {l[i] : i \in 1..n1} = t1
        /\ {l[i] : i \in (n1 + 1)..n2} = t2
        /\ {l[i] : i \in (n2 + 1)..n3} = t3
        /\ {l[i] : i \in (n3 + 1)..n4} = t4

\* C7: for every non-empty list of query keywords, keys of keyword_index or
\* not, and no time constraint, search_by_multiple_keywords returns the
\* concatenation of the four tiers, in their order.
C7_FourTiersInOrder ==
    ( /\ last.op = "search_by_multiple_keywords"
      /\ last.query # <<>>
      /\ last.date = <<>> /\ last.time = <<>> )
    => /\ last.outcome = "ok"
       /\ IsConcatenation(last.ranked, Tier1(last.query), Tier2(last.query),
                          Tier3(last.query), Tier4(last.query))

\* C7 for the queries all of whose keywords are keys of keyword_index
C7_FourTiersOfTrackedKeywords ==
    ( /\ last.op = "search_by_multiple_keywords"
      /\ last.query # <<>>
      /\ Range(last.query) \subseteq DOMAIN keywords
      /\ last.date = <<>> /\ last.time = <<>> )
    => /\ last.outcome = "ok"
       /\ IsConcatenation(last.ranked, Tier1(last.query), Tier2(last.query),
                          Tier3(last.query), Tier4(last.query))

C8_WindowReturned ==
    /\ last.op = "search_by_multiple_keywords" /\ last.outcome = "ok"
    /\ last.limits.low # <<>>

\* a query with a resolved time window returned a file
C8_WindowReturnedFile == C8_WindowReturned /\ last.ranked # <<>>

\* the date d, a string of 4, 6 or 8 digits, names a year, a month of it or
\* a day of it
IsCalendarDate(d) ==
    /\ Len(d) \in {4, 6, 8}
    /\ IsInt(d)
    /\ ParseInt(Slice(d, 0, 4)) \in 1..9999
    /\ Len(d) >= 6 => ParseInt(Slice(d, 4, 6)) \in 1..12
    /\ Len(d) = 8 => ParseInt(Slice(d, 6, 8))
                        \in 1..DaysInMonth(ParseInt(Slice(d, 0, 4)), ParseInt(Slice(d, 4, 6)))

\* the first second of the year, month or day that d names
UnitStart(d) ==
    LET y == ParseInt(Slice(d, 0, 4))
        m == IF Len(d) >= 6 THEN ParseInt(Slice(d, 4, 6)) ELSE 1
        dd == IF Len(d) = 8 THEN ParseInt(Slice(d, 6, 8)) ELSE 1
    IN  Timestamp(y, m, dd, 0, 0, 0)

\* the last second of the year, month or day that d names
UnitEnd(d) ==
    LET y == ParseInt(Slice(d, 0, 4))
        m == IF Len(d) >= 6 THEN ParseInt(Slice(d, 4, 6)) ELSE 12
        dd == IF Len(d) = 8 THEN ParseInt(Slice(d, 6, 8)) ELSE DaysInMonth(y, m)
    IN  Timestamp(y, m, dd, 23, 59, 59)

\* C9: for a date-only input _get_epoch_limits returns the whole containing
\* unit: low is its first day at 00:00:00 and high its last day at 23:59:59.
C9_DateOnlyWindow ==
    ( /\ last.op = "_get_epoch_limits"
      /\ last.time = <<>> /\ last.date # <<>>
      /\ IsCalendarDate(last.date[1]) )
    => /\ last.outcome = "ok"
       /\ last.limits.low = <<UnitStart(last.date[1])>>
       /\ last.limits.high = <<UnitEnd(last.date[1])>>

\* C9 for the dates of 8 digits
C9_DayWindow ==
    ( /\ last.op = "_get_epoch_limits"
      /\ last.time = <<>> /\ last.date # <<>>
      /\ IsCalendarDate(last.date[1]) /\ Len(last.date[1]) = 8 )
    => /\ last.outcome = "ok"
       /\ last.limits.low = <<UnitStart(last.date[1])>>
       /\ last.limits.high = <<UnitEnd(last.date[1])>>

\* C10: whatever the date and time strings, _get_epoch_limits returns to
\* search_by_multiple_keywords without an exception, and the query is then
\* completed: a query whose keywords are all tracked and whose window is
\* left unresolved returns.
C10_MalformedDateTimeNonFatal ==
    last.op = "search_by_multiple_keywords" =>
        /\ last.limits.outcome = "ok"
        /\ (Range(last.query) \subseteq DOMAIN keywords /\ last.limits.low = <<>>)
              => last.outcome = "ok"

-----------------------------------------------------------------------------
(* Claims about the Indexer, checked under Spec *)

\* C1: an id is in keyword_index[k] if and only if a FileRecord with that id
\* exists and k is among that record's keywords (no stale memberships).
C1_KeywordIndexConsistent ==
    \A id \in DOMAIN files \cup UNION {keywords[k] : k \in DOMAIN keywords} :
        \A k \in DOMAIN keywords \cup UNION {files[i].keywords : i \in DOMAIN files} :
            (k \in DOMAIN keywords /\ id \in keywords[k])
                <=> (id \in DOMAIN files /\ k \in files[id].keywords)

\* a tracked file whose keywords were {report, reports} was re-indexed with
\* {reports, q3}
C1_Witness ==
    /\ last.op = "index_file" /\ last.outcome = "ok" /\ last.tracked
    /\ last.old_keywords = {W_report, W_reports}
    /\ files[last.id].keywords = {W_reports, W_q3}
    /\ last.id \notin keywords[W_report]
    /\ last.id \in keywords[W_reports]
    /\ last.id \in keywords[W_q3]

\* C2: index_file on a tracked file whose current identity is identical to
\* the stored one changes nothing in the Index Table or the allocator.
C2_UnchangedFileIsNoOp ==
    [][ ( /\ last'.op = "index_file"
          /\ last'.filepath \in DOMAIN path
          /\ last'.cur_stat = files[path[last'.filepath]].u_meta )
        => UNCHANGED table ]_vars

\* the fast path was taken for a file whose identity is the stored one
C2_Witness ==
    /\ last.op = "index_file" /\ last.outcome = "unchanged" /\ last.tracked
    /\ last.cur_stat = files[last.id].u_meta

\* C3: after every index_file call that returns, the record's stored
\* identity is the file's current identity and identity_index maps that
\* identity to the record's id.
C3_StoredIdentityIsCurrent ==
    (last.op = "index_file" /\ last.outcome = "ok") =>
        /\ files[last.id].u_meta = last.cur_stat
        /\ last.cur_stat \in DOMAIN uid
        /\ uid[last.cur_stat] = last.id

-----------------------------------------------------------------------------
(* Claims about the window resolution, checked under SpecEpoch *)

\* C11: a date that is not 4, 6 or 8 characters long, given alone to
\* _get_epoch_limits, is treated as malformed: whenever the call returns, the
\* window it returns is unresolved, (None, None).
C11_OddLengthDateUnresolved ==
    ( /\ last.op = "_get_epoch_limits" /\ last.outcome = "ok"
      /\ last.time = <<>> /\ last.date # <<>>
      /\ Len(last.date[1]) \notin {4, 6, 8} )
    => last.limits.low = <<>> /\ last.limits.high = <<>>

-----------------------------------------------------------------------------
(* Several Indexer objects in one process *)

\* the Indexer objects constructed
Indexers == {"indexer1", "indexer2"}

\* the IndexTable object made once, when the body of class Indexer is
\* executed (line 89); its mappings and its State are the default arguments
\* of IndexTable.__init__ and State.__init__, made once as well
ClassIndexTable == "Indexer.index_table"

\* self.index_table of an Indexer object: Indexer.__init__ (lines 96-102)
\* assigns no such attribute, so the lookup ends at the attribute of the class
index_table(self) == ClassIndexTable

\* what is read through a reference to an IndexTable object: the variables
\* files, name, keywords, path, uid, free_slots and lastid hold the contents
\* of the object of line 89
TableContents(obj) ==
    IF obj = ClassIndexTable THEN table
    ELSE << <<>>, <<>>, <<>>, <<>>, <<>>, {}, -1 >>

\* index_file called on one of the Indexer objects
IndexFileBy ==
    \E self \in Indexers :
        /\ index_table(self) = ClassIndexTable
        /\ IndexTextFile

SpecShared == Init /\ [][IndexFileBy]_vars

\* C12: Index Table instances are independent: whichever Indexer object an
\* index_file call is made on, the FileRecords, the four indices and the
\* allocator state read through every other Indexer object are unchanged.
C12_InstancesIndependent ==
    [][ last'.op = "index_file" =>
          \E self \in Indexers :
              \A other \in Indexers \ {self} :
                  UNCHANGED TableContents(index_table(other)) ]_vars

-----------------------------------------------------------------------------
(* Further claims about the Indexer, checked under Spec *)

\* os.path.basename of a path
Basename(p) == IF p = <<>> THEN <<>> ELSE <<p[Len(p)]>>

\* C13: after index_file returns, for a bare file name or a path with
\* directory components, the file's id is a member of
\* name_index[basename(rel)], rel being the root-relative path of the file.
C13_NameIndexedByBasename ==
    (last.op = "index_file" /\ last.outcome \in {"ok", "unchanged"}) =>
        /\ Basename(last.filepath) \in DOMAIN name
        /\ last.id \in name[Basename(last.filepath)]

\* C13 for the calls whose argument is a bare file name
C13_BareNameIndexed ==
    (last.op = "index_file" /\ last.outcome \in {"ok", "unchanged"}
        /\ Len(last.filename) = 1) =>
        /\ Basename(last.filepath) \in DOMAIN name
        /\ last.id \in name[Basename(last.filepath)]

-----------------------------------------------------------------------------
(* indexer.py: index_directory.  The call is a recursion over the tree; the *)
(* calls in progress are the frames of stack, and each step of the loop of  *)
(* the innermost call is one step of the model.  No other operation runs    *)
(* while a call is in progress.                                             *)

\* the longest path CURRENT_DIRECTORY is let to take
MaxCursorLen == 3

\* p is a prefix of q
IsPrefix(p, q) == Len(p) <= Len(q) /\ SubSeq(q, 1, Len(p)) = p

\* os.path.isdir(p): some file lies below p
IsDir(p) ==
    \E f \in ExistingFiles : IsPrefix(NormPath(p), f) /\ Len(NormPath(p)) < Len(f)

\* os.path.isfile(p)
IsFile(p) == NormPath(p) \in ExistingFiles

\* the set of names os.listdir(p) returns for a directory p
ListDir(p) ==
    {f[Len(NormPath(p)) + 1] :
        f \in {g \in ExistingFiles : IsPrefix(NormPath(p), g) /\ Len(NormPath(p)) < Len(g)}}

\* dirname arguments of index_directory: the default "", a directory, and a
\* name that does not exist
Dirnames == {<<>>, <<"d">>, <<"nope">>}

\* lines 197-201 of index_directory(dirname), called with the stack of
\* callers stk: the cursor is moved and the directory is listed, in any
\* order; where os.listdir raises, the exception leaves every caller and no
\* cursor is restored
EnterDirectory(dirname, stk) ==
    LET full_dirpath == JoinPath(CURRENT_DIRECTORY, dirname)
        temp_current_dir == CURRENT_DIRECTORY
        call == [NoCall EXCEPT !.op = "index_directory", !.filename = dirname,
                               !.filepath = full_dirpath]
    IN  /\ CURRENT_DIRECTORY' = full_dirpath                           \* line 200
        /\ IF IsDir(full_dirpath)
           THEN \E entries \in Orderings(ListDir(full_dirpath)) :
                  /\ stack' = Append(stk, [dirname |-> dirname,
                                           full_dirpath |-> full_dirpath,
                                           temp_current_dir |-> temp_current_dir,
                                           entries |-> entries])
                  /\ last' = [call EXCEPT !.outcome = "entered"]
           ELSE /\ stack' = <<>>
                /\ last' = [call EXCEPT !.outcome =
                               IF IsFile(full_dirpath) THEN "NotADirectoryError"
                               ELSE "FileNotFoundError"]
        /\ UNCHANGED <<table, NIX, PWD>>

\* index_directory called while no call is in progress
IndexDirectory ==
    /\ stack = <<>>
    /\ \E dirname \in Dirnames :
          /\ Len(JoinPath(CURRENT_DIRECTORY, dirname)) <= MaxCursorLen
          /\ EnterDirectory(dirname, stack)

\* what the files visited by index_directory are found to hold
WalkContents ==
    {<<104, 105>>} \X {e \in ExtractorResults : e.ok}

\* lines 201-206: one iteration of the loop of the innermost call
WalkEntry ==
    /\ stack # <<>>
    /\ stack[Len(stack)].entries # <<>>
    /\ LET frame == stack[Len(stack)]
           entry == Head(frame.entries)
           full_entry_path == JoinPath(frame.full_dirpath, <<entry>>)
           \* the callers, the innermost one having gone past this entry
           callers == [stack EXCEPT ![Len(stack)].entries = Tail(frame.entries)]
       IN  IF IsDir(full_entry_path)
           THEN EnterDirectory(<<entry>>, callers)                     \* line 204
           ELSE IF IsFile(full_entry_path)
           THEN \E st \in MtimeStats, content \in WalkContents :       \* line 206
                  /\ index_file(<<entry>>, st, content[1], content[2])
                  /\ stack' = IF last'.outcome \in {"ok", "unchanged"}
                              THEN callers
                              ELSE <<>>     \* the exception leaves every caller
           ELSE /\ stack' = callers
                /\ UNCHANGED <<table, CURRENT_DIRECTORY, NIX, PWD, last>>

\* a return that leaves the cursor where the loop left it
WalkReturn_NoRestore ==
    /\ stack # <<>>
    /\ stack[Len(stack)].entries = <<>>
    /\ LET frame == stack[Len(stack)]
       IN  /\ stack' = SubSeq(stack, 1, Len(stack) - 1)
           /\ last' = [NoCall EXCEPT !.op = "index_directory", !.outcome = "ok",
                                     !.filename = frame.dirname,
                                     !.filepath = frame.full_dirpath]
           /\ UNCHANGED <<table, CURRENT_DIRECTORY, NIX, PWD>>

\* line 208: the loop of the innermost call is over, the call returns
WalkReturn ==
    /\ stack # <<>>
    /\ stack[Len(stack)].entries = <<>>
    /\ LET frame == stack[Len(stack)]
       IN  /\ CURRENT_DIRECTORY' = frame.temp_current_dir
           /\ stack' = SubSeq(stack, 1, Len(stack) - 1)
           /\ last' = [NoCall EXCEPT !.op = "index_directory", !.outcome = "ok",
                                     !.filename = frame.dirname,
                                     !.filepath = frame.full_dirpath]
           /\ UNCHANGED <<table, NIX, PWD>>

NextWalk == IndexTextFile \/ IndexDirectory \/ WalkEntry \/ WalkReturn

SpecWalk == Init /\ [][NextWalk]_vars

-----------------------------------------------------------------------------
(* Claims about the Indexer, checked under SpecWalk *)

\* C14: after any sequence of index_file and index_directory calls, every
\* FileRecord id -> r has path_index[r.path] = id, and path_index is
\* one-to-one: no two tracked paths map to the same id.
C14_PathIndexOneToOne ==
    /\ \A id \in DOMAIN files :
          files[id].path \in DOMAIN path /\ path[files[id].path] = id
    /\ \A p, q \in DOMAIN path : path[p] = path[q] => p = q

\* an index_directory call on the root has returned and left two files
\* tracked
C14_Witness ==
    /\ stack = <<>>
    /\ last.op = "index_directory" /\ last.outcome = "ok"
    /\ last.filepath = HOME_DIRECTORY
    /\ Cardinality(DOMAIN path) = 2
    /\ Cardinality(DOMAIN files) = 2

-----------------------------------------------------------------------------
(* Specification of the Indexer over a table whose State holds released    *)
(* ids.  No code of the Indexer releases an id, so from IndexTable() the    *)
(* set free_slots stays empty; a State with free slots is one constructed   *)
(* with them, State(free_slots, lastid), or loaded by Indexer.load.         *)

\* ids 0..MaxReleased-1 may have been issued and released before
MaxReleased == 2

\* IndexTable(state=State(free_slots, lastid)) with no file tracked: ids up
\* to lastid were issued, and some of them released
InitAlloc ==
    /\ files = <<>>
    /\ name = <<>>
    /\ keywords = <<>>
    /\ path = <<>>
    /\ uid = <<>>
    /\ lastid \in -1..(MaxReleased - 1)
    /\ free_slots \in SUBSET (0..lastid)
    /\ CURRENT_DIRECTORY = HOME_DIRECTORY
    /\ NIX \in BOOLEAN
    /\ stack = <<>>
    /\ PWD = HOME_DIRECTORY
    /\ last = NoCall

SpecAlloc == InitAlloc /\ [][IndexTextFile]_vars

\* C15: in every reachable state free_ids is disjoint from the FileRecord
\* ids and every FileRecord id is <= last_id; an id taken from free_ids for
\* a new file is removed from free_ids by that allocation; and an id is
\* issued by incrementing last_id only when free_ids is empty.
C15_AllocatorDiscipline ==
    /\ [](/\ free_slots \cap DOMAIN files = {}
          /\ \A id \in DOMAIN files : id <= lastid)
    /\ [][ (last'.op = "index_file" /\ last'.outcome = "ok" /\ ~last'.tracked) =>
              IF free_slots # {}
              THEN /\ last'.id \in free_slots
                   /\ free_slots' = free_slots \ {last'.id}
                   /\ lastid' = lastid
              ELSE /\ last'.id = lastid + 1
                   /\ lastid' = lastid + 1
                   /\ free_slots' = {} ]_vars

\* a new file was given an id out of free_slots while another id stayed free
C15_Witness ==
    /\ last.op = "index_file" /\ last.outcome = "ok" /\ ~last.tracked
    /\ free_slots # {}
    /\ last.id \notin free_slots
    /\ last.id \in DOMAIN files

\* a new file was given an id by incrementing lastid
C15_WitnessIncrement ==
    /\ last.op = "index_file" /\ last.outcome = "ok" /\ ~last.tracked
    /\ last.id = lastid /\ last.id = MaxReleased

\* C16: once a path has been assigned an id, path_index[path] keeps that id
\* through every later index_file or index_directory call, re-indexing after
\* a change of identity included; and a call of index_file on a tracked path
\* allocates nothing: lastid and free_slots are unchanged.
C16_PathKeepsItsId ==
    [][ /\ \A p \in DOMAIN path : p \in DOMAIN path' /\ path'[p] = path[p]
        /\ (last'.op = "index_file" /\ last'.filepath \in DOMAIN path) =>
              (lastid' = lastid /\ free_slots' = free_slots) ]_vars

\* a tracked file whose identity had changed was re-indexed by a step of
\* index_directory, under the id it had
C16_Witness ==
    /\ stack # <<>>
    /\ last.op = "index_file" /\ last.outcome = "ok" /\ last.tracked
    /\ last.cur_stat # files[last.id].u_meta
    /\ path[last.filepath] = last.id
    /\ Cardinality(DOMAIN files) = 2 /\ lastid = 1

-----------------------------------------------------------------------------
(* Specification of the Indexer over files of every kind of content, the   *)
(* extractor never failing                                                  *)

\* a file whose first SniffLength bytes are text and whose next byte is NUL
LateNulHead == [i \in 1..(SniffLength + 1) |-> IF i <= SniffLength THEN 104 ELSE 0]

\* the first bytes of the files: letters with control characters that count
\* as text, a NUL, a DEL, a NUL after the bytes that are read
SniffHeads ==
    {<<104, 9, 27, 255>>, <<104, 0>>, <<127, 104>>, LateNulHead}

\* what os.stat returns for them: two modification times
SniffStats == {[st_dev |-> 1, st_ino |-> 1, st_mtime |-> Mtime(t)] : t \in 1..2}

\* what the extractor returns, or would return if it were run
ExtractedPhrases == {e \in ExtractorResults : e.ok}

\* the files index_file is called on
TrackedNames == {<<"a">>, <<"d", "a">>}

IndexSniffed ==
    /\ stack = <<>>
    /\ \E filename \in TrackedNames, st \in SniffStats, head \in SniffHeads,
          ext \in ExtractedPhrases :
            index_file(filename, st, head, ext)
    /\ UNCHANGED stack

SpecSniff == Init /\ [][IndexSniffed]_vars

\* the bytes the claim lists: 0x07, 0x08, 0x09, 0x0A, 0x0C, 0x0D, 0x1B and
\* 0x20..0xFF without 0x7F
ListedTextBytes == {7, 8, 9, 10, 12, 13, 27} \cup {b \in 32..255 : b # 127}

\* some byte among the first 1024 of head is not a listed one
HasOtherByte(head) ==
    \E i \in 1..Len(head) : i <= 1024 /\ head[i] \notin ListedTextBytes

\* HasOtherByte for the files of the model
OtherByte == [head \in SniffHeads |-> HasOtherByte(head)]

\* C17: a file with a byte outside the listed ones among its first 1024
\* bytes is taken for binary and a file without one for text; when index_file
\* indexes a binary file the extractor's output is not used and the record's
\* keywords are exactly its user keywords, none for a newly tracked file;
\* the keywords of a text file are the extractor's tokens and its user
\* keywords.
C17_BinaryClassification ==
    /\ [](\A head \in SniffHeads : is_binary_file(head) <=> OtherByte[head])
    /\ [][ \A filename \in {last'.filename}, st \in SniffStats, head \in SniffHeads,
              ext \in ExtractedPhrases :
             ( /\ last'.op = "index_file" /\ last'.outcome = "ok"
               /\ NIX => st = last'.cur_stat
               /\ index_file(filename, st, head, ext) ) =>
                 /\ OtherByte[head] =>
                       /\ files'[last'.id].keywords = files'[last'.id].user_keywords
                       /\ ~last'.tracked => files'[last'.id].keywords = {}
                 /\ ~OtherByte[head] =>
                       files'[last'.id].keywords =
                           Tokens(ext.phrases) \cup files'[last'.id].user_keywords ]_vars

\* a tracked file that had content keywords was re-indexed and has none: in
\* SpecSniff the extractor never fails, so the file was taken for binary
C17_Witness ==
    /\ last.op = "index_file" /\ last.outcome = "ok" /\ last.tracked
    /\ last.old_keywords # {}
    /\ files[last.id].keywords = {}
    /\ \A k \in DOMAIN keywords : last.id \notin keywords[k]

-----------------------------------------------------------------------------
(* Specification of the Indexer over text files, the extractor failing on  *)
(* some calls                                                               *)

\* the first bytes of a text file
TextHead == <<104, 105>>

\* the extractor raising an exception
FailedExtraction == [ok |-> FALSE, phrases |-> <<>>]

IndexExtracted ==
    /\ stack = <<>>
    /\ \E filename \in TrackedNames, st \in MtimeStats, ext \in ExtractorResults :
          index_file(filename, st, TextHead, ext)
    /\ UNCHANGED stack

SpecExtract == Init /\ [][IndexExtracted]_vars

\* C18: when the extractor fails on a text file, index_file completes: the
\* file is tracked, with a record and entries in path_index, name_index and
\* identity_index, its keywords are exactly its user keywords, and no former
\* content keyword of a previously tracked file lists its id any more.
C18_ExtractionFailureIsSoft ==
    [][ \A filename \in {last'.filename}, st \in MtimeStats :
          ( /\ last'.op = "index_file"
            /\ last'.outcome \notin {"unchanged", "AttributeError", "FileNotFoundError"}
            /\ NIX => st = last'.cur_stat
            /\ index_file(filename, st, TextHead, FailedExtraction) ) =>
              /\ last'.outcome = "ok"
              /\ last'.id \in DOMAIN files'
              /\ last'.filepath \in DOMAIN path' /\ path'[last'.filepath] = last'.id
              /\ \E n \in DOMAIN name' : last'.id \in name'[n]
              /\ \E s \in DOMAIN uid' : uid'[s] = last'.id
              /\ files'[last'.id].keywords = files'[last'.id].user_keywords
              /\ \A k \in last'.old_keywords \ files'[last'.id].user_keywords :
                    k \in DOMAIN keywords' => last'.id \notin keywords'[k] ]_vars

\* the extractor failed on a tracked text file that had content keywords: the
\* file is still tracked and none of its former keywords lists it
C18_Witness ==
    /\ last.op = "index_file" /\ last.outcome = "ok" /\ last.tracked
    /\ last.old_keywords = {W_report, W_reports}
    /\ files[last.id].keywords = {}
    /\ path[last.filepath] = last.id
    /\ last.id \notin keywords[W_report] /\ last.id \notin keywords[W_reports]

-----------------------------------------------------------------------------
(* search.py: name search.  The keys of IndexTable.name are the filename    *)
(* arguments of index_file, which are strings.                              *)

\* the characters of the path components of the model
ComponentChars ==
    [c \in {"a", "d", "nope", "home"} |->
        IF c = "a" THEN <<"a">>
        ELSE IF c = "d" THEN <<"d">>
        ELSE IF c = "nope" THEN <<"n", "o", "p", "e">>
        ELSE <<"h", "o", "m", "e">>]

\* the string of a relative path: its components joined by "/"
RECURSIVE PathStr(_)
PathStr(p) ==
    IF p = <<>> THEN <<>>
    ELSE IF Len(p) = 1 THEN ComponentChars[p[1]]
    ELSE PathStr(SubSeq(p, 1, Len(p) - 1)) \o <<"/">> \o ComponentChars[p[Len(p)]]

\* Python's  sub in s  for strings
IsSubstring(sub, s) ==
    \E k \in 0..(Len(s) - Len(sub)) : SubSeq(s, k + 1, k + Len(sub)) = sub

\* search_by_name lines 43-49: the two sets the loop accumulates
SimilarNameIds(nameindex, query) ==
    UNION {nameindex[i] : i \in {k \in DOMAIN nameindex :
                                    JaroAtLeastThreshold(PathStr(k), query)}}

SubstringNameIds(nameindex, query) ==
    UNION {nameindex[i] : i \in {k \in DOMAIN nameindex : IsSubstring(query, PathStr(k))}}

\* Search.search_by_name(name, fuzzy): the outcomes [outcome, result, ranked]
\* of the call, a set being returned in result and a list in ranked
search_by_name(query, fuzzy) ==
    IF ~fuzzy
    THEN IF \E k \in DOMAIN name : PathStr(k) = query
         THEN {[outcome |-> "ok", ranked |-> <<>>,
                result |-> name[CHOOSE k \in DOMAIN name : PathStr(k) = query]]}
         ELSE {[outcome |-> "KeyError", result |-> {}, ranked |-> <<>>]}   \* line 41
    ELSE LET files_set == SimilarNameIds(name, query)
             \* line 50
             substring_check_set == SubstringNameIds(name, query) \ files_set
         IN  {[outcome |-> "ok", result |-> {}, ranked |-> l] :
                 l \in Extended(Orderings(files_set), substring_check_set)}  \* lines 51-52

\* name arguments of the search
QueryNames ==
    {<<"a">>, <<"a", "b">>, <<"d">>, <<"d", "/", "a">>, <<"z">>}

SearchByName ==
    \E query \in QueryNames, fuzzy \in BOOLEAN :
        \E r \in search_by_name(query, fuzzy) :
            /\ last' = [NoCall EXCEPT !.op = "search_by_name", !.keyword = query,
                                      !.fuzzy = fuzzy, !.outcome = r.outcome,
                                      !.result = r.result, !.ranked = r.ranked]
            /\ UNCHANGED <<table, CURRENT_DIRECTORY, NIX, stack, PWD>>

NextName == IndexTextFile \/ SearchByName

SpecName == Init /\ [][NextName]_vars

\* the basename of the file with the given id, as a string
BasenameOf(id) == PathStr(Basename(files[id].path))

\* ids of the files whose basename is similar to the query
PrimaryIds(query) ==
    {id \in DOMAIN files : JaroAtLeastThreshold(BasenameOf(id), query)}

\* ids of the files whose basename contains the query
SecondaryIds(query) ==
    {id \in DOMAIN files : IsSubstring(query, BasenameOf(id))}

\* l lists the ids of t1 and then those of t2, each once
IsTwoPartList(l, t1, t2) ==
    /\ Len(l) = Cardinality(t1) + Cardinality(t2)
    /\ {l[i] : i \in 1..Cardinality(t1)} = t1
    /\ {l[i] : i \in (Cardinality(t1) + 1)..Len(l)} = t2

\* C19: fuzzy name search returns, without duplicates, all ids of basenames
\* whose similarity to the query is at least the threshold, followed by all
\* ids of basenames that contain the query and are not among the former.
C19_FuzzyNameRanking ==
    (last.op = "search_by_name" /\ last.fuzzy) =>
        /\ last.outcome = "ok"
        /\ IsTwoPartList(last.ranked, PrimaryIds(last.keyword),
                         SecondaryIds(last.keyword) \ PrimaryIds(last.keyword))

\* C19 for the tables in which every key of name is the basename of the
\* files listed under it
C19_FuzzyRankingOfBareNames ==
    ( /\ last.op = "search_by_name" /\ last.fuzzy
      /\ \A k \in DOMAIN name : \A id \in name[k] : PathStr(k) = BasenameOf(id) ) =>
        /\ last.outcome = "ok"
        /\ IsTwoPartList(last.ranked, PrimaryIds(last.keyword),
                         SecondaryIds(last.keyword) \ PrimaryIds(last.keyword))

-----------------------------------------------------------------------------
(* peregrine.py: the cd command.  CommandHandler keeps its own cursor, PWD, *)
(* and its root HOME, the directory the Indexer is given as home.           *)

\* os.path.exists(p)
Exists(p) == IsFile(p) \/ IsDir(p)

\* directory arguments of cd, absolute or relative to PWD
CdArguments ==
    {[isabs |-> FALSE, parts |-> p] :
        p \in {<<".">>, <<"d">>, <<"..">>, <<"nope">>, <<"a">>, <<"d", "..", "..">>}}
    \cup {[isabs |-> TRUE, parts |-> p] : p \in {<<"out">>, <<"home", "d">>, <<>>}}

\* CommandHandler.cd(args), args.directory being directory: the outcome is
\* ok, or the code of the error reported, or the exception that reporting it
\* raises
cd(directory) ==
    LET joined == IF directory.isabs THEN directory.parts
                  ELSE JoinPath(PWD, directory.parts)               \* line 221
        abspath == NormPath(joined)                                 \* line 222
        call == [NoCall EXCEPT !.op = "cd", !.filename = directory.parts,
                               !.filepath = abspath]
        reported(code) ==
            {[call EXCEPT !.outcome = IF o = "ok" THEN code ELSE o] : o \in log(code)}
    IN  /\ IF ~Exists(abspath)
           THEN last' \in reported("INVALID_PATH") /\ PWD' = PWD    \* line 224
           ELSE IF ~IsPrefix(HOME_DIRECTORY, abspath)               \* line 227
           THEN last' \in reported("OUT_OF_SCOPE_PATH") /\ PWD' = PWD
           ELSE last' = [call EXCEPT !.outcome = "ok"] /\ PWD' = abspath   \* line 230
        /\ UNCHANGED <<table, CURRENT_DIRECTORY, NIX, stack>>

Cd == \E directory \in CdArguments : cd(directory)

\* filename arguments of index_file: a file, a file outside the root, and
\* names that do not exist, below the root and outside it
ScopeFilenames == {<<"a">>, <<"..", "out">>, <<"nope">>, <<"..", "nope">>}

IndexScoped ==
    /\ stack = <<>>
    /\ \E filename \in ScopeFilenames, st \in MtimeStats, ext \in ExtractedPhrases :
          index_file(filename, st, TextHead, ext)
    /\ UNCHANGED stack

NextScope == IndexScoped \/ Cd

SpecScope == Init /\ [][NextScope]_vars

\* the root-relative path rel leads out of the root
OutsideRoot(rel) == rel # <<>> /\ rel[1] = ".."

\* the part of C20 about cd: a cd that reports an error leaves PWD as it
\* was, and PWD is always the root or a descendant of it
C20_CdStaysBelowRoot ==
    /\ [](IsPrefix(HOME_DIRECTORY, PWD))
    /\ [][ (last'.op = "cd" /\ last'.outcome # "ok") => PWD' = PWD ]_vars

\* the part of C20 about a file that does not exist
C20_MissingFileNoMutation ==
    [][ ( /\ last'.op = "index_file"
          /\ ~FileExists(JoinPath(CURRENT_DIRECTORY, last'.filename)) )
        => UNCHANGED table ]_vars

\* C20: a path error causes no mutation.  A cd to a path that does not exist
\* or lies outside the root leaves PWD unchanged, so PWD is always the root
\* or a descendant of it; index_file on a path that does not exist or that
\* resolves outside the root leaves the Index Table and the allocator
\* unchanged, so no key of path_index denotes a location outside the root.
C20_PathErrorNoMutation ==
    /\ [](IsPrefix(HOME_DIRECTORY, PWD))
    /\ [][ (last'.op = "cd" /\ last'.outcome # "ok") => PWD' = PWD ]_vars
    /\ [][ ( /\ last'.op = "index_file"
             /\ \/ ~FileExists(JoinPath(CURRENT_DIRECTORY, last'.filename))
                \/ OutsideRoot(last'.filepath) )
           => UNCHANGED table ]_vars
    /\ [](\A p \in DOMAIN path : ~OutsideRoot(p))

-----------------------------------------------------------------------------
(* Claims about change detection, checked under Spec *)

\* C21: a tracked file takes the no-op fast path of index_file exactly when
\* its current identity equals the stored identity in all three components,
\* device, inode and modification time; a difference in any of them makes
\* the call re-index the file.
C21_WholeIdentityCompared ==
    (last.op = "index_file" /\ last.tracked /\ NIX) =>
        (last.outcome = "unchanged" <=> last.cur_stat = files[last.id].u_meta)

\* what line 150 does compare: the inode and the modification time
C21_InodeAndMtimeCompared ==
    (last.op = "index_file" /\ last.tracked /\ NIX) =>
        (last.outcome = "unchanged"
            <=> /\ last.cur_stat.st_ino = files[last.id].u_meta.st_ino
                /\ last.cur_stat.st_mtime = files[last.id].u_meta.st_mtime)

-----------------------------------------------------------------------------
(* index_directory run to completion: a call in progress keeps executing,   *)
(* so the loop step and the return of the innermost call are never          *)
(* postponed for ever                                                       *)

\* index_directory calls alone, one after the other
NextWalkFair == IndexDirectory \/ WalkEntry \/ WalkReturn

SpecWalkFair ==
    Init /\ [][NextWalkFair]_vars /\ WF_vars(WalkEntry) /\ WF_vars(WalkReturn)

\* the regular files in the subtree of the directory dir
FilesBelow(dir) == {f \in ExistingFiles : IsPrefix(dir, f) /\ Len(dir) < Len(f)}

\* the outermost call in progress returns in this step
OutermostReturns ==
    /\ Len(stack) = 1
    /\ stack' = <<>>
    /\ last'.op = "index_directory" /\ last'.outcome = "ok"

\* C22: on a finite tree every index_directory call terminates; when it
\* returns, the current-directory cursor has the value it had before the
\* call and every regular file in the subtree of the directory is tracked
\* under its path relative to the index root, whatever the order in which
\* the entries were enumerated.
C22_IndexDirectoryCompletes ==
    /\ (stack # <<>>) ~> (stack = <<>>)
    \* the outermost frame remembers the cursor at the time of the call
    /\ [][ (stack = <<>> /\ stack' # <<>>)
           => /\ Len(stack') = 1
              /\ stack'[1].temp_current_dir = CURRENT_DIRECTORY
              /\ stack'[1].full_dirpath
                    = JoinPath(CURRENT_DIRECTORY, stack'[1].dirname) ]_vars
    /\ [][ (stack # <<>> /\ stack' # <<>>) => stack'[1].temp_current_dir
                                               = stack[1].temp_current_dir ]_vars
    /\ [][ OutermostReturns
           => /\ CURRENT_DIRECTORY' = stack[1].temp_current_dir
              /\ \A f \in FilesBelow(stack[1].full_dirpath) :
                    LET rel == RelPath(f, HOME_DIRECTORY)
                    IN  /\ rel \in DOMAIN path'
                        /\ files'[path'[rel]].path = rel ]_vars

\* index_directory("d") called at the root has returned: the file below d
\* is tracked as d/a and the cursor is back at the root
C22_Witness ==
    /\ stack = <<>>
    /\ last.op = "index_directory" /\ last.outcome = "ok"
    /\ last.filepath = <<"home", "d">>
    /\ DOMAIN path = {<<"d", "a">>}
    /\ CURRENT_DIRECTORY = HOME_DIRECTORY

\* index_directory("") called at the root has returned with both files of
\* the tree tracked, the file of the subdirectory as d/a
C22_WitnessRoot ==
    /\ stack = <<>>
    /\ last.op = "index_directory" /\ last.outcome = "ok"
    /\ last.filepath = HOME_DIRECTORY
    /\ DOMAIN path = {<<"a">>, <<"d", "a">>}
    /\ CURRENT_DIRECTORY = HOME_DIRECTORY

-----------------------------------------------------------------------------
(* Specification of the four searches over a populated Index Table *)

\* the files the searches run over, each with the identity os.stat gives
QueriedFiles ==
    { [filename |-> <<"a">>,
       st |-> [st_dev |-> 1, st_ino |-> 1, st_mtime |-> Mtime(1)]],
      [filename |-> <<"d", "a">>,
       st |-> [st_dev |-> 1, st_ino |-> 2, st_mtime |-> Mtime(2)]] }

\* index_file calls that populate the table for the searches
IndexQueried ==
    /\ stack = <<>>
    /\ \E f \in QueriedFiles, ext \in {e \in ExtractorResults : e.ok} :
          index_file(f.filename, f.st, <<104, 105>>, ext)
    /\ UNCHANGED stack

NextQuery ==
    \/ IndexQueried
    \/ SearchByKeyword
    \/ SearchByName
    \/ SearchByTime
    \/ SearchByMultipleKeywords

SpecQuery == Init /\ [][NextQuery]_vars

\* the calls of the Search Engine
SearchOperations ==
    {"search_by_keyword", "search_by_name", "search_by_time",
     "search_by_multiple_keywords"}

\* C23: the four searches are read-only: a search leaves FileRecords, the
\* path, name, keyword and identity indices (the id sets stored in the
\* keyword index included) and the allocator unchanged, so that a query
\* answers after any sequence of queries what it answers alone.
C23_SearchesReadOnly ==
    /\ [][ last'.op \in SearchOperations => UNCHANGED table ]_vars
    /\ [][ last'.op \in SearchOperations
           => /\ \A keyword \in QueryWords, fuzzy \in BOOLEAN :
                    search_by_keyword(keyword, fuzzy)' = search_by_keyword(keyword, fuzzy)
              /\ \A query \in QueryNames :
                    search_by_name(query, FALSE)' = search_by_name(query, FALSE) ]_vars

\* a composite query of one keyword and no time constraint has returned ids
\* that the fuzzy search added to those of the exact search, the set stored
\* under the keyword being a proper subset of what was returned
C23_Witness ==
    /\ last.op = "search_by_multiple_keywords" /\ last.outcome = "ok"
    /\ Len(last.query) = 1
    /\ last.date = <<>> /\ last.time = <<>>
    /\ last.query[1] \in DOMAIN keywords
    /\ keywords[last.query[1]] # {}
    /\ keywords[last.query[1]] # Range(last.ranked)
    /\ keywords[last.query[1]] \subseteq Range(last.ranked)

-----------------------------------------------------------------------------
(* Specification of index_file called again and again on files that change *)
(* or stay as they are between the calls                                    *)

\* what os.stat can return for the file of a call: two modification times,
\* and the same inode and time on another device
AgainStats ==
    {[st_dev |-> 1, st_ino |-> 1, st_mtime |-> Mtime(1)],
     [st_dev |-> 1, st_ino |-> 1, st_mtime |-> Mtime(2)],
     [st_dev |-> 2, st_ino |-> 1, st_mtime |-> Mtime(1)]}

IndexAgain ==
    /\ stack = <<>>
    /\ \E filename \in Filenames, st \in AgainStats, content \in FileContents :
          index_file(filename, st, content[1], content[2])
    /\ UNCHANGED stack

SpecAgain == Init /\ [][IndexAgain]_vars

\* C24: index_file is idempotent on the table: a second call on the same
\* file, the file having the identity and the content it had at the first
\* call, leaves FileRecords, the four indices and the allocator as the first
\* call left them, whether the first call indexed a new file, re-indexed a
\* tracked one, took the fast path or raised.
C24_IndexFileIdempotent ==
    [][ \A st \in AgainStats, content \in FileContents :
          ( /\ last.op = "index_file"
            /\ get_unique_metadata(NIX, st) = last.cur_stat
            \* the content the first call read
            /\ last.outcome = "ok"
                  => ContentKeywords(content[1], content[2]) = files[last.id].keywords
            /\ index_file(last.filename, st, content[1], content[2]) )
          => UNCHANGED table ]_vars

\* a tracked file whose current identity is not the stored one was indexed
\* again, the fast path not being taken, and the call found the keywords the
\* record already had
C24_Witness ==
    /\ last.op = "index_file" /\ last.outcome = "ok" /\ last.tracked
    /\ last.cur_stat # files[last.id].u_meta
    /\ last.old_keywords = files[last.id].keywords
    /\ last.old_keywords # {}

====
